---- MODULE Spec2Model ----
(***************************************************************************)
(* The three network checker components (EVM, Solana, Substrate): one      *)
(* fetch of a static JSON document on mount, an in-memory network list, a  *)
(* live text filter, a dropdown with a delayed close, a details panel.     *)
(*                                                                         *)
(* Strings are sequences of UTF-16 code units (48..57 digits, 65..90       *)
(* upper case, 97..122 lower case), so that toLowerCase, includes,         *)
(* startsWith, toString and the default Array.sort order are computed.     *)
(* A nullable value is <<>> (null) or <<v>>.                               *)
(***************************************************************************)
EXTENDS Integers, Sequences, FiniteSets, TLC

\* Length of the longest network list a document carries.
MaxNetworks == 12
\* Number of blur timers that may be pending at once.
MaxTimers == 2

(***************************************************************************)
(* String primitives of the runtime.                                       *)
(***************************************************************************)
toLowerCase(s) == [i \in 1..Len(s) |-> IF s[i] \in 65..90 THEN s[i] + 32 ELSE s[i]]

includes(s, t) == \E i \in 0..(Len(s) - Len(t)) : SubSeq(s, i + 1, i + Len(t)) = t

startsWith(s, t) == Len(t) <= Len(s) /\ SubSeq(s, 1, Len(t)) = t

RECURSIVE toString(_)
toString(n) == IF n < 10 THEN <<48 + n>> ELSE Append(toString(n \div 10), 48 + (n % 10))

slice(s, from, to) == SubSeq(s, from + 1, IF to < Len(s) THEN to ELSE Len(s))

\* Comparison of the default Array.prototype.sort: by code units, a proper
\* prefix first.
RECURSIVE codeUnitLess(_, _)
codeUnitLess(a, b) ==
  IF b = <<>> THEN FALSE
  ELSE IF a = <<>> THEN TRUE
  ELSE IF Head(a) # Head(b) THEN Head(a) < Head(b)
  ELSE codeUnitLess(Tail(a), Tail(b))

RECURSIVE insertSorted(_, _)
insertSorted(s, x) ==
  IF s = <<>> THEN <<x>>
  ELSE IF codeUnitLess(x, Head(s)) THEN <<x>> \o s
  ELSE <<Head(s)>> \o insertSorted(Tail(s), x)

RECURSIVE sort(_)
sort(s) == IF s = <<>> THEN <<>> ELSE insertSorted(sort(SubSeq(s, 1, Len(s) - 1)), s[Len(s)])

(***************************************************************************)
(* Values of the runtime that the fetch can deliver.                       *)
(***************************************************************************)
Undefined == [t |-> "undefined", v |-> <<>>]
JsNull == [t |-> "null", v |-> <<>>]
EmptyObject == [t |-> "object", v |-> <<>>]
Arr(s) == [t |-> "array", v |-> s]

\* JS truthiness of the values above (every object and array is truthy).
Truthy(x) == x.t \in {"object", "array"}

\* a || b
Or(a, b) == IF Truthy(a) THEN a ELSE b

(***************************************************************************)
(* Network records.  Only the fields the components read are kept.         *)
(***************************************************************************)
\* A data item is a string or an object with a name.
StringItem(s) == [typeof |-> "string", value |-> s]
ObjectItem(s) == [typeof |-> "object", value |-> [name |-> s]]

\* dataset names: "bl", "tx", "lg", "Tr"
DatasetBl == <<98, 108>>
DatasetTx == <<116, 120>>
DatasetLg == <<108, 103>>
DatasetTr == <<84, 114>>

EvmProviders(i) ==
  CASE i % 3 = 0 -> <<>>
    [] i % 3 = 1 -> << [data |-> <<StringItem(DatasetTx), ObjectItem(DatasetBl)>>],
                       [data |-> <<ObjectItem(DatasetTx), StringItem(DatasetLg),
                                   StringItem(DatasetTr)>>] >>
    [] OTHER     -> << [data |-> <<ObjectItem(DatasetLg), StringItem(DatasetLg)>>],
                       [data |-> <<>>] >>

\* "Net?" / "Dot?", chain id i, id "x?" / "y?"
EvmNetwork(i) ==
  [ chainId   |-> i,
    chainName |-> (IF i % 3 = 0 THEN <<68, 111, 116>> ELSE <<78, 101, 116>>) \o <<96 + i>>,
    id        |-> <<120 + (i % 2), 96 + i>>,
    providers |-> EvmProviders(i) ]

SolanaProviders(i) ==
  CASE i % 3 = 0 -> <<>>
    [] i % 3 = 1 -> << [data |-> <<ObjectItem(DatasetTx), ObjectItem(DatasetBl)>>],
                       [data |-> <<ObjectItem(DatasetTx), ObjectItem(DatasetTr)>>] >>
    [] OTHER     -> << [data |-> <<ObjectItem(DatasetLg)>>] >>

\* "Sol?" / "Ecl?", id "s?", network "main" / "dev"
SolanaNetwork(i) ==
  [ id        |-> <<115, 96 + i>>,
    chainName |-> (IF i % 3 = 0 THEN <<69, 99, 108>> ELSE <<83, 111, 108>>) \o <<96 + i>>,
    network   |-> IF i % 2 = 0 THEN <<109, 97, 105, 110>> ELSE <<100, 101, 118>>,
    providers |-> SolanaProviders(i) ]

\* displayName "Para?" / "Dot?", name "p?", relayChain null / "Ksm" / "dot",
\* parachainId null / "" / "a7" / decimal text of 20 + i
SubstrateNetwork(i) ==
  [ name        |-> <<112, 96 + i>>,
    displayName |-> (IF i % 3 = 0 THEN <<68, 111, 116>> ELSE <<80, 97, 114, 97>>) \o <<96 + i>>,
    relayChain  |-> CASE i % 3 = 0 -> <<>>
                      [] i % 3 = 1 -> << <<75, 115, 109>> >>
                      [] OTHER     -> << <<100, 111, 116>> >>,
    parachainId |-> CASE i % 4 = 0 -> <<>>
                      [] i = 5     -> << <<>> >>
                      [] i = 6     -> << <<97, 55>> >>
                      [] OTHER     -> << toString(20 + i) >> ]

Kinds == {"evm", "solana", "substrate"}

NetworkOf(k, i) ==
  CASE k = "evm" -> EvmNetwork(i)
    [] k = "solana" -> SolanaNetwork(i)
    [] OTHER -> SubstrateNetwork(i)

NetworkList(k, n) == [i \in 1..n |-> NetworkOf(k, i)]

\* The property under which each component expects its list.
ListKey(k) == IF k = "substrate" THEN "networks" ELSE "archives"

\* Parsed documents: JSON null, or an object with at most one property.
NoData == [t |-> "undefined", key |-> "none", value |-> Undefined]
NullDocument == [t |-> "null", key |-> "none", value |-> Undefined]
ObjectDocument(key, value) == [t |-> "object", key |-> key, value |-> value]

PropertyValues(k) ==
  {JsNull, EmptyObject} \cup {Arr(NetworkList(k, n)) : n \in {0, 2, MaxNetworks}}

Documents(k) ==
  {NullDocument, ObjectDocument("none", Undefined)}
    \cup {ObjectDocument(key, value) : key \in {"archives", "networks"},
                                        value \in PropertyValues(k)}

\* data.archives, data.networks: throws on null, undefined for a missing property
GetThrows(data) == data.t \in {"null", "undefined"}
Get(data, key) == IF data.key = key THEN data.value ELSE Undefined

\* Values the user can type into the input: "", "t", "NET", "2", "x", "q",
\* and per component a few more.
Terms(k) ==
  {<<>>, <<116>>, <<78, 69, 84>>, <<50>>, <<120>>, <<113>>}
    \cup (CASE k = "evm" -> {<<49>>, <<49, 50>>}
            [] k = "solana" -> {<<83>>, <<109, 97>>}
            [] OTHER -> {<<65>>, <<97>>, <<75, 83>>, <<51>>})

(***************************************************************************)
(* The filter predicates of the three components.                          *)
(***************************************************************************)
\* As evmMatches, the chain id searched like the other fields.
evmMatchesIncludes(network, searchTerm) ==
  LET searchLower == toLowerCase(searchTerm) IN
    \/ includes(toLowerCase(network.chainName), searchLower)
    \/ includes(toString(network.chainId), searchLower)
    \/ includes(toLowerCase(network.id), searchLower)

evmMatches(network, searchTerm) ==
  LET searchLower == toLowerCase(searchTerm) IN
    \/ includes(toLowerCase(network.chainName), searchLower)
    \/ startsWith(toString(network.chainId), searchTerm)
    \/ includes(toLowerCase(network.id), searchLower)

solanaMatches(network, searchTerm) ==
  LET searchLower == toLowerCase(searchTerm) IN
    \/ includes(toLowerCase(network.chainName), searchLower)
    \/ includes(toLowerCase(network.id), searchLower)
    \/ includes(toLowerCase(network.network), searchLower)

\* A null or empty string is falsy: x && f(x) is then falsy too.
TruthyString(o) == o # <<>> /\ o[1] # <<>>

substrateMatches(network, searchTerm) ==
  LET searchLower == toLowerCase(searchTerm) IN
    \/ includes(toLowerCase(network.displayName), searchLower)
    \/ includes(toLowerCase(network.name), searchLower)
    \/ (TruthyString(network.parachainId) /\ startsWith(network.parachainId[1], searchTerm))
    \/ (TruthyString(network.relayChain)
          /\ includes(toLowerCase(network.relayChain[1]), searchLower))

matches(k, network, searchTerm) ==
  CASE k = "evm" -> evmMatches(network, searchTerm)
    [] k = "solana" -> solanaMatches(network, searchTerm)
    [] OTHER -> substrateMatches(network, searchTerm)

\* Array.prototype.filter with the component's predicate.
RECURSIVE filter(_, _, _)
filter(k, s, searchTerm) ==
  IF s = <<>> THEN <<>>
  ELSE IF matches(k, Head(s), searchTerm)
       THEN <<Head(s)>> \o filter(k, Tail(s), searchTerm)
       ELSE filter(k, Tail(s), searchTerm)

\* The useMemo body.  With a non-empty term it calls networks.filter, which
\* exists on arrays only.
filteredNetworksThrows(searchTerm, nets) == searchTerm # <<>> /\ nets.t # "array"

\* As filteredNetworks, the slice forgotten.
filteredNetworksNoSlice(k, searchTerm, nets) ==
  IF searchTerm = <<>> THEN nets
  ELSE Arr(filter(k, nets.v, searchTerm))

filteredNetworks(k, searchTerm, nets) ==
  IF searchTerm = <<>> THEN nets
  ELSE Arr(slice(filter(k, nets.v, searchTerm), 0, 10))

\* x.length > 0: length is undefined on a plain object and the test is false.
NonEmptyLength(x) == x.t = "array" /\ Len(x.v) > 0

\* The display name each component copies into the input on selection.
DisplayName(k, network) == IF k = "substrate" THEN network.displayName ELSE network.chainName

\* Insertion-ordered Set: add keeps the first occurrence.
setAdd(allData, x) == IF \E i \in 1..Len(allData) : allData[i] = x THEN allData ELSE Append(allData, x)

RECURSIVE evmAddItems(_, _)
evmAddItems(allData, items) ==
  IF items = <<>> THEN allData
  ELSE LET item == Head(items) IN
    IF item.typeof = "string"
    THEN evmAddItems(setAdd(allData, item.value), Tail(items))
    ELSE evmAddItems(setAdd(allData, item.value.name), Tail(items))

RECURSIVE evmAddProviders(_, _)
evmAddProviders(allData, providers) ==
  IF providers = <<>> THEN allData
  ELSE evmAddProviders(evmAddItems(allData, Head(providers).data), Tail(providers))

\* As evmGetAvailableData, an array in place of the Set.
RECURSIVE evmPushItems(_, _)
evmPushItems(allData, items) ==
  IF items = <<>> THEN allData
  ELSE LET item == Head(items) IN
    IF item.typeof = "string"
    THEN evmPushItems(Append(allData, item.value), Tail(items))
    ELSE evmPushItems(Append(allData, item.value.name), Tail(items))

RECURSIVE evmPushProviders(_, _)
evmPushProviders(allData, providers) ==
  IF providers = <<>> THEN allData
  ELSE evmPushProviders(evmPushItems(allData, Head(providers).data), Tail(providers))

evmGetAvailableDataArray(network) == sort(evmPushProviders(<<>>, network.providers))

evmGetAvailableData(network) == sort(evmAddProviders(<<>>, network.providers))

RECURSIVE solanaAddItems(_, _)
solanaAddItems(allData, items) ==
  IF items = <<>> THEN allData
  ELSE solanaAddItems(setAdd(allData, Head(items).value.name), Tail(items))

RECURSIVE solanaAddProviders(_, _)
solanaAddProviders(allData, providers) ==
  IF providers = <<>> THEN allData
  ELSE solanaAddProviders(solanaAddItems(allData, Head(providers).data), Tail(providers))

solanaGetAvailableData(network) == sort(solanaAddProviders(<<>>, network.providers))

(***************************************************************************)
(* State of one mounted component.                                         *)
(***************************************************************************)
VARIABLES
  kind,             \* which of the three components is mounted
  searchTerm,       \* useState('')
  selectedNetwork,  \* useState(null): <<>> or <<network>>
  isDropdownOpen,   \* useState(false)
  networks,         \* useState([])
  loading,          \* useState(true)
  pc,               \* fetchNetworks: "mount", "fetch", "json", "settled"
  data,             \* the parsed document (local of fetchNetworks)
  fetches,          \* calls of fetch()
  assigns,          \* calls of setNetworks()
  timers,           \* pending setTimeout callbacks of handleInputBlur
  focused,          \* whether the input holds the focus
  crashed           \* a render threw and the component was unmounted

vars == <<kind, searchTerm, selectedNetwork, isDropdownOpen, networks, loading, pc,
          data, fetches, assigns, timers, focused, crashed>>

userVars == <<searchTerm, selectedNetwork, isDropdownOpen, timers, focused, crashed>>
fetchVars == <<networks, loading, pc, data, fetches, assigns>>

Init ==
  /\ kind \in Kinds
  /\ searchTerm = <<>>
  /\ selectedNetwork = <<>>
  /\ isDropdownOpen = FALSE
  /\ networks = Arr(<<>>)
  /\ loading = TRUE
  /\ pc = "mount"
  /\ data = NoData
  /\ fetches = 0
  /\ assigns = 0
  /\ timers = 0
  /\ focused = FALSE
  /\ crashed = FALSE

(***************************************************************************)
(* What the render shows.                                                  *)
(***************************************************************************)
\* The input and everything below it are rendered only after loading.
InputRendered == ~loading /\ ~crashed

\* The render evaluates filteredNetworks; a throw there unmounts the tree.
RenderThrows(ld, term, nets) == ~ld /\ filteredNetworksThrows(term, nets)

\* As DropdownItems, mapping over networks in place of filteredNetworks.
DropdownItemsUnfiltered ==
  IF InputRendered /\ isDropdownOpen /\ NonEmptyLength(networks)
  THEN networks.v
  ELSE <<>>

\* The items of the dropdown, each with its click handler.
DropdownItems ==
  IF InputRendered /\ isDropdownOpen
       /\ NonEmptyLength(filteredNetworks(kind, searchTerm, networks))
  THEN filteredNetworks(kind, searchTerm, networks).v
  ELSE <<>>

DetailsShown == InputRendered /\ selectedNetwork # <<>>

\* The "Available Data" list of the details panel (EVM and Solana).
AvailableData ==
  IF kind = "evm" THEN evmGetAvailableData(selectedNetwork[1])
  ELSE solanaGetAvailableData(selectedNetwork[1])

(***************************************************************************)
(* The mount effect: fetchNetworks.                                        *)
(***************************************************************************)
\* As RunEffect, the dependency array forgotten: the effect runs after
\* every render.
RunEffectEveryRender ==
  /\ pc \in {"mount", "settled"}
  /\ fetches < 3
  /\ pc' = "fetch"
  /\ fetches' = fetches + 1
  /\ UNCHANGED <<kind, networks, loading, data, assigns>>
  /\ UNCHANGED <<searchTerm, selectedNetwork, isDropdownOpen, timers, focused, crashed>>

RunEffect ==
  /\ pc = "mount"
  /\ pc' = "fetch"
  /\ fetches' = fetches + 1
  /\ UNCHANGED <<kind, networks, loading, data, assigns>>
  /\ UNCHANGED userVars

\* catch: setNetworks([]); finally: setLoading(false)
Catch ==
  /\ networks' = Arr(<<>>)
  /\ assigns' = assigns + 1
  /\ loading' = FALSE
  /\ pc' = "settled"

FetchReject ==
  /\ pc = "fetch"
  /\ Catch
  /\ UNCHANGED <<kind, data, fetches>>
  /\ UNCHANGED userVars

FetchResolve ==
  /\ pc = "fetch"
  /\ pc' = "json"
  /\ UNCHANGED <<kind, networks, loading, data, fetches, assigns>>
  /\ UNCHANGED userVars

JsonReject ==
  /\ pc = "json"
  /\ Catch
  /\ UNCHANGED <<kind, data, fetches>>
  /\ UNCHANGED userVars

JsonResolve ==
  /\ pc = "json"
  /\ \E d \in Documents(kind) :
       /\ data' = d
       /\ IF GetThrows(d)
          THEN Catch
          ELSE /\ networks' = Or(Get(d, ListKey(kind)), Arr(<<>>))
               /\ assigns' = assigns + 1
               /\ loading' = FALSE
               /\ pc' = "settled"
  /\ UNCHANGED <<kind, fetches>>
  /\ UNCHANGED userVars

(***************************************************************************)
(* The handlers of the input and of the dropdown items.                    *)
(***************************************************************************)
handleInputFocus ==
  /\ InputRendered
  /\ ~focused
  /\ focused' = TRUE
  /\ isDropdownOpen' = TRUE
  /\ UNCHANGED <<kind, searchTerm, selectedNetwork, timers, crashed>>
  /\ UNCHANGED fetchVars

\* As handleInputBlur, closing at once.
handleInputBlurNoDelay ==
  /\ ~loading /\ ~crashed
  /\ focused
  /\ timers < MaxTimers
  /\ focused' = FALSE
  /\ timers' = timers + 1
  /\ isDropdownOpen' = FALSE
  /\ UNCHANGED <<kind, searchTerm, selectedNetwork, crashed>>
  /\ UNCHANGED <<networks, loading, pc, data, fetches, assigns>>

handleInputBlur ==
  /\ InputRendered
  /\ focused
  /\ timers < MaxTimers
  /\ focused' = FALSE
  /\ timers' = timers + 1
  /\ UNCHANGED <<kind, searchTerm, selectedNetwork, isDropdownOpen, crashed>>
  /\ UNCHANGED fetchVars

\* As handleInputChange, the selection not cleared.
handleInputChangeKeepsSelection ==
  /\ ~loading /\ ~crashed
  /\ focused
  /\ \E value \in Terms(kind) :
       /\ searchTerm' = value
       /\ isDropdownOpen' = TRUE
       /\ crashed' = (value # <<>> /\ networks.t # "array")
       /\ focused' = ~(value # <<>> /\ networks.t # "array")
  /\ UNCHANGED <<kind, timers, selectedNetwork>>
  /\ UNCHANGED <<networks, loading, pc, data, fetches, assigns>>

handleInputChange ==
  /\ InputRendered
  /\ focused
  /\ \E value \in Terms(kind) :
       /\ searchTerm' = value
       /\ selectedNetwork' = <<>>
       /\ isDropdownOpen' = TRUE
       /\ crashed' = RenderThrows(loading, value, networks)
       /\ focused' = ~RenderThrows(loading, value, networks)
  /\ UNCHANGED <<kind, timers>>
  /\ UNCHANGED fetchVars

handleNetworkSelect ==
  /\ \E i \in 1..Len(DropdownItems) :
       LET network == DropdownItems[i] IN
         /\ selectedNetwork' = <<network>>
         /\ searchTerm' = DisplayName(kind, network)
         /\ isDropdownOpen' = FALSE
  /\ UNCHANGED <<kind, timers, focused, crashed>>
  /\ UNCHANGED fetchVars

\* The callback of the timer set by handleInputBlur.
BlurTimerFires ==
  /\ timers > 0
  /\ timers' = timers - 1
  /\ isDropdownOpen' = FALSE
  /\ UNCHANGED <<kind, searchTerm, selectedNetwork, focused, crashed>>
  /\ UNCHANGED fetchVars

Next ==
  \/ RunEffect
  \/ FetchReject
  \/ FetchResolve
  \/ JsonReject
  \/ JsonResolve
  \/ handleInputFocus
  \/ handleInputBlur
  \/ handleInputChange
  \/ handleNetworkSelect
  \/ BlurTimerFires

Spec == Init /\ [][Next]_vars

\* Timers set with setTimeout do fire.
LiveSpec == Spec /\ WF_vars(BlurTimerFires)

(***************************************************************************)
(* Properties.                                                             *)
(***************************************************************************)
Filtered == filteredNetworks(kind, searchTerm, networks)

\* Positions of the loaded list whose record passes the component's filter
\* predicate for the current term (the empty term is contained in every
\* string, so it selects every position).
MatchingPositions == {i \in 1..Len(networks.v) : matches(kind, networks.v[i], searchTerm)}

\* The k-th smallest matching position.
KthMatch(k) ==
  CHOOSE i \in MatchingPositions : Cardinality({j \in MatchingPositions : j <= i}) = k

Min(a, b) == IF a < b THEN a ELSE b

FirstMatches ==
  [k \in 1..Min(10, Cardinality(MatchingPositions)) |-> networks.v[KthMatch(k)]]

\* C1 as stated: for every term and loaded list the filtered list is the
\* first min(10, m) matching records in list order, never more than 10.
C1_FirstTenForEveryTerm ==
  networks.t = "array" => (Filtered.v = FirstMatches /\ Len(Filtered.v) <= 10)

\* C1 amended: for a non-empty term the filtered list is the first
\* min(10, m) matching records in list order; for the empty term it is the
\* whole loaded list, uncapped.
C1_FirstTenForNonEmptyTerm ==
  networks.t = "array" =>
    /\ searchTerm # <<>> => (Filtered.v = FirstMatches /\ Len(Filtered.v) <= 10)
    /\ searchTerm = <<>> => Filtered = networks

C1_Witness ==
  /\ networks.t = "array"
  /\ searchTerm # <<>>
  /\ Cardinality(MatchingPositions) > 10
  /\ Len(DropdownItems) = 10

\* The term occurs in the field as a substring, letter case ignored.
LowerUnit(c) == IF c >= 65 /\ c <= 90 THEN c + 32 ELSE c

OccursIgnoringCase(field, term) ==
  \E a \in 0..Len(field) :
    /\ a + Len(term) <= Len(field)
    /\ \A j \in 1..Len(term) : LowerUnit(field[a + j]) = LowerUnit(term[j])

\* The field begins with the term exactly as typed.
BeginsWith(field, term) ==
  /\ Len(term) <= Len(field)
  /\ \A j \in 1..Len(term) : field[j] = term[j]

\* The fields searched as text, and the identifier fields, of a record.
TextFields(k, r) ==
  CASE k = "evm" -> {r.chainName, r.id}
    [] k = "solana" -> {r.chainName, r.id, r.network}
    [] OTHER -> {r.displayName, r.name} \cup {r.relayChain[i] : i \in 1..Len(r.relayChain)}

IdentifierFields(k, r) ==
  CASE k = "evm" -> {toString(r.chainId)}
    [] k = "solana" -> {}
    [] OTHER -> {r.parachainId[i] : i \in 1..Len(r.parachainId)}

\* C2 as stated: for a non-empty term a record matches iff the term occurs,
\* ignoring case, as a substring of one of its searched fields.
C2_SubstringOfAnyField ==
  (networks.t = "array" /\ searchTerm # <<>>) =>
    \A i \in 1..Len(networks.v) :
      LET r == networks.v[i] IN
        matches(kind, r, searchTerm) <=>
          \E f \in TextFields(kind, r) \cup IdentifierFields(kind, r) :
            OccursIgnoringCase(f, searchTerm)

\* C2 amended: for a non-empty term a record matches iff the term occurs,
\* ignoring case, as a substring of a text field (names, id, network, relay
\* chain), or the EVM chain id in decimal / the Substrate parachain id
\* begins with the term exactly as typed.
C2_SubstringOrIdentifierPrefix ==
  (networks.t = "array" /\ searchTerm # <<>>) =>
    \A i \in 1..Len(networks.v) :
      LET r == networks.v[i] IN
        matches(kind, r, searchTerm) <=>
          \/ \E f \in TextFields(kind, r) : OccursIgnoringCase(f, searchTerm)
          \/ \E f \in IdentifierFields(kind, r) : BeginsWith(f, searchTerm)

\* A record whose identifier holds the term inside it, not at its start, is
\* left out of the open dropdown.
C2_Witness ==
  /\ networks.t = "array"
  /\ searchTerm # <<>>
  /\ isDropdownOpen
  /\ InputRendered
  /\ \E i \in 1..Len(networks.v) :
       /\ \E f \in IdentifierFields(kind, networks.v[i]) : OccursIgnoringCase(f, searchTerm)
       /\ \A j \in 1..Len(Filtered.v) : Filtered.v[j] # networks.v[i]

\* C3: one fetch per mount, the network list assigned once, when the fetch
\* settles; afterwards nothing changes the list or brings loading back.
C3_OneFetchOneAssignment ==
  /\ [](/\ fetches <= 1
        /\ assigns <= 1
        /\ (pc # "mount" => fetches = 1)
        /\ (assigns = 1 <=> pc = "settled"))
  /\ [][pc = "settled" =>
          /\ networks' = networks
          /\ loading' = FALSE
          /\ fetches' = fetches
          /\ assigns' = assigns]_vars
  /\ [][networks' # networks => (pc # "settled" /\ pc' = "settled")]_vars

C3_Witness == pc = "settled" /\ selectedNetwork # <<>> /\ timers > 0 /\ focused

\* C4: a close scheduled by an earlier blur never closes a dropdown that a
\* later focus or input change has opened: while the input holds the focus
\* again, a firing blur timer leaves the open flag alone.
C4_StaleTimerNeverCloses ==
  [][(timers' < timers /\ focused) => isDropdownOpen' = isDropdownOpen]_vars

\* The name of a data item.
ItemName(item) == IF item.typeof = "string" THEN item.value ELSE item.value.name

DatasetNames(network) ==
  {ItemName(network.providers[p].data[d]) :
     <<p, d>> \in {pd \in (1..Len(network.providers)) \X (1..4) :
                     pd[2] <= Len(network.providers[pd[1]].data)}}

\* a sorts strictly before b in code unit order.
StrictlyBefore(a, b) ==
  \E k \in 1..(Len(a) + 1) :
    /\ \A j \in 1..(k - 1) : j <= Len(b) /\ a[j] = b[j]
    /\ k <= Len(b)
    /\ (k <= Len(a) => a[k] < b[k])

\* C5: the Available Data list of the EVM and Solana details panel holds
\* exactly the dataset names of the selected network's providers, each
\* once, in ascending string order.
C5_AvailableDataSortedSet ==
  (selectedNetwork # <<>> /\ kind \in {"evm", "solana"}) =>
    LET out == AvailableData IN
      /\ {out[i] : i \in 1..Len(out)} = DatasetNames(selectedNetwork[1])
      /\ \A i, j \in 1..Len(out) : i < j => StrictlyBefore(out[i], out[j])

\* A selected network whose providers repeat a name, with at least three
\* names.
C5_Witness ==
  /\ DetailsShown
  /\ kind = "evm"
  /\ Len(AvailableData) >= 3
  /\ \E p \in 1..Len(selectedNetwork[1].providers) :
       \E d \in 1..Len(selectedNetwork[1].providers[p].data) :
         \E q \in 1..(p - 1) :
           \E e \in 1..Len(selectedNetwork[1].providers[q].data) :
             ItemName(selectedNetwork[1].providers[p].data[d])
               = ItemName(selectedNetwork[1].providers[q].data[e])

DocumentList ==
  IF data.t = "object" /\ data.key = ListKey(kind) /\ data.value.t = "array"
  THEN data.value
  ELSE Arr(<<>>)

\* C7: loading holds, and the input is not rendered, until the fetch
\* settles; once settled loading is false and the network list is the
\* document's list, or the empty list when the fetch rejected, the body was
\* not JSON, or the document has no list under the key.
C7_SettlesToListOrEmpty ==
  /\ pc # "settled" => (loading /\ ~InputRendered)
  /\ pc = "settled" => (~loading /\ networks = DocumentList)

\* C8: the selected network is null or a record of the loaded list, it was
\* in the filtered list when it was selected, and the details panel shows
\* exactly when it is not null.
C8_SelectionFromFilteredList ==
  /\ [](selectedNetwork # <<>> =>
          /\ networks.t = "array"
          /\ \E i \in 1..Len(networks.v) : networks.v[i] = selectedNetwork[1])
  /\ [](DetailsShown <=> selectedNetwork # <<>>)
  /\ [][(selectedNetwork' # selectedNetwork /\ selectedNetwork' # <<>>) =>
          \E i \in 1..Len(Filtered.v) : selectedNetwork' = <<Filtered.v[i]>>]_vars

C8_Witness ==
  /\ DetailsShown
  /\ Len(networks.v) > 10
  /\ selectedNetwork[1] # networks.v[1]

\* C9: whenever a network is selected the search term is its display name
\* (chainName for EVM and Solana, displayName for Substrate).
C9_TermIsSelectedName ==
  selectedNetwork # <<>> =>
    searchTerm = (IF kind = "substrate" THEN selectedNetwork[1].displayName
                  ELSE selectedNetwork[1].chainName)

C9_Witness == selectedNetwork # <<>> /\ focused /\ timers > 0 /\ isDropdownOpen

====
